---- MODULE Spec2Model ----
(***************************************************************************)
(* Model of package bouncer (eyelight/bouncer): a button press-length      *)
(* recognizer.  HandlePin (the pin interrupt handler) sends Bounce samples *)
(* on isrChan; the SysTick handler sends ticks on a capacity-1 channel     *)
(* that a relay forwards to the recognizer's tickerCh; the goroutine       *)
(* RecognizeAndPublish consumes both, gates release edges on its tick      *)
(* counter, classifies the down duration and publishes the PressLength to  *)
(* every output channel.                                                   *)
(*                                                                         *)
(* Durations and instants are in milliseconds (every constant of the       *)
(* source is a whole number of milliseconds).                              *)
(***************************************************************************)
EXTENDS Integers, Sequences, FiniteSets, TLC

(* ---- PressLength (bouncer.go:46-53) ---- *)
Debounce == 0
ShortPress == 1
LongPress == 2
ExtraLongPress == 3

(* ---- defaults set by New (bouncer.go:101-104) ---- *)
DefaultDebounce == 21
DefaultShortPress == 22
DefaultLongPress == 500
DefaultExtraLongPress == 1971

(* ---- errors (bouncer.go:33-38); NoError is a nil error ---- *)
NoError == "nil"
ERROR_DEBOUNCE_TOO_SHORT == "Debounces should probably be greater than 10ms"
ERROR_DEBOUNCE_TOO_LONG == "Debounces should probably be shorter than 30ms"
ERROR_TIMES_MUST_ASCEND ==
    "Button press intervals must ascend in duration (sp, lp, elp)"
ERROR_INVALID_PRESSLENGTH == "PressLength not understood"
ERROR_NO_OUTPUT_CHANNELS == "New bouncer wasn't given any output channels"

(* ---- limits of SetDebounceDuration (bouncer.go:213, 216) ---- *)
MinDebounce == 10
MaxDebounce == 30

(* ---- the tick gate of RecognizeAndPublish (bouncer.go:168) ---- *)
TickGate == 2

(* ---- channels of the example program (example/main.go:12-14, 34) ---- *)
SysTicksCap == 1
OutCap == 1
NumOuts == 2

(* the SysTick period: CPUFrequency()/40, 25 ms (example/main.go:18) *)
TickPeriod == 25

(* the ticker channel handed to RecognizeAndPublish: the README passes the *)
(* capacity-1 tick channel or a relay channel of the same kind             *)
TickerCap == 1

(* ---- bounds of the model ---- *)
MaxEdges == 4      \* pin interrupts fired
MaxTicks == 3      \* cap of the recognizer's tick counter
MaxIsrCap == 1     \* buffer size of isrChan tried next to no buffer
PairMaxEdges == 3  \* pin interrupts fired when two runs are compared
RelayMaxEdges == 2 \* samples each button behind the fan-out relay receives
SetupMaxEdges == 2 \* pin interrupts fired while the thresholds are being set

(* time.Time{} : earlier than every instant time.Now() returns *)
ZeroTime == 0 - 1

(* the instants at which the pin interrupt is fired: they give holds of 0, *)
(* 22, 1949 and 1971 ms, one on each side of every threshold tried         *)
Instants == {0, 22, 1971}

(* arguments tried for the setters: one ascending triple (short = long),   *)
(* one with short > long, one with long > extraLong; one debounce value in *)
(* range and one on each side of it                                        *)
PressInputs ==
    {<<1949, 1949, 1971>>, <<1971, 1949, 1971>>, <<1949, 1971, 1949>>}
DebounceInputs == {9, 30, 31}

Outs == 1..NumOuts

(* the channels main hands to New: outChan1, outChan2 *)
ExampleOuts == <<1, 2>>

(* the two buttons a fan-out relay serves *)
Btns == {1, 2}

NoBounce == [id |-> 0, t |-> ZeroTime, s |-> TRUE]

VARIABLES
    now,              \* time.Now()
    nProduced,        \* pin interrupts fired so far
    isrCap,           \* cap(isrChan), chosen by the caller of New
    isrChan,          \* buffered samples of isrChan
    isrBlocked,       \* sample of a HandlePin call parked in its send
    sysTicks,         \* ticks pending in the SysTick channel
    pcTick,           \* position of the SysTick handler
    tickCoalesced,    \* the last SysTick found the channel full
    relayHeld,        \* the relay has received a tick and not yet forwarded it
    tickerCh,         \* ticks pending in tickerCh
    debounceInterval, shortPress, longPress, extraLongPress,   \* button fields
    ticks, btnDown, dur,      \* locals of RecognizeAndPublish
    pc, pubIdx, pubVal,       \* position of RecognizeAndPublish / publish
    outCh,            \* buffered values of each output channel
    nConsumed,        \* samples RecognizeAndPublish has received
    arm,              \* the sample that moved the recognizer out of ticks = 0
    since,            \* ticks consumed since that sample
    extraDowns,       \* press edges consumed since that sample
    last,             \* what the last receive of RecognizeAndPublish did
    classified,       \* values handed to publish, in order
    sent,             \* values sent on each output channel, in order
    pEdges,           \* two runs: the samples produced, the same for both
    pPos,             \* two runs: samples each run has received
    pTickQ,           \* two runs: ticks pending in each run's tickerCh
    pTicks, pDown,    \* two runs: ticks and btnDown of each run
    pArm,             \* two runs: the sample that armed each run
    pLog,             \* two runs: the releases each run accepted
    pSame,            \* two runs: every tick so far went to both runs
    built,            \* what New returned: "none" before the call, "ok", "nil"
    outChans,         \* button.outChans: the output channels, in order
    err,              \* the error the last call on the API returned
    ret,              \* the duration the last call of Duration returned
    call,             \* the call last started: operation, argument, fields before
    setPc,            \* position of a SetPressDurations call in progress
    lastOk,           \* the values last set with success, the defaults at first
    rejectedAt,       \* classifications made when thresholds were first rejected
    rlAt,             \* fan-out relay: 0 waiting for a tick, i sending to button i
    rlTickQ,          \* fan-out relay: ticks pending in each button's tickerCh
    rlTicks, rlDown,  \* fan-out relay: ticks and btnDown of each button
    rlPub,            \* fan-out relay: the value each button is publishing
    rlOut,            \* fan-out relay: the output channel of each button
    rlEdges,          \* fan-out relay: samples each button has received
    scn,              \* scenario: which script of events is played
    scnPos            \* scenario: events of the script produced so far

vars == <<now, nProduced, isrCap, isrChan, isrBlocked, sysTicks, pcTick,
          tickCoalesced, relayHeld, tickerCh, debounceInterval, shortPress,
          longPress, extraLongPress, ticks, btnDown, dur, pc, pubIdx, pubVal,
          outCh, nConsumed, arm, since, extraDowns, last, classified, sent,
          pEdges, pPos, pTickQ, pTicks, pDown, pArm, pLog, pSame,
          built, outChans, err, ret, call, setPc, lastOk, rejectedAt,
          rlAt, rlTickQ, rlTicks, rlDown, rlPub, rlOut, rlEdges, scn, scnPos>>

edgeVars == <<nProduced, isrChan, isrBlocked>>
tickVars == <<sysTicks, pcTick, tickCoalesced, relayHeld, tickerCh>>
cfgVars == <<debounceInterval, shortPress, longPress, extraLongPress>>
recVars == <<ticks, btnDown, dur, pc, pubIdx, pubVal>>
ghostVars == <<nConsumed, arm, since, extraDowns, last, classified>>
pairVars == <<pEdges, pPos, pTickQ, pTicks, pDown, pArm, pLog, pSame>>
callVars == <<built, outChans, err, ret, call, setPc, lastOk, rejectedAt>>
relayVars == <<rlAt, rlTickQ, rlTicks, rlDown, rlPub, rlOut, rlEdges>>
scnVars == <<scn, scnPos>>
auxVars == <<callVars, relayVars, scnVars>>
soloVars == <<now, edgeVars, isrCap, tickVars, recVars, outCh, ghostVars,
              sent>>

Runs == 1..2

NoStep == [ev |-> "none", res |-> "none", val |-> Debounce]

NoCall == [op |-> "none", arg |-> <<>>, pre |-> <<>>]

(* the four duration fields of the button *)
Fields == <<debounceInterval, shortPress, longPress, extraLongPress>>

(* the three press thresholds of the button *)
Thresholds == <<shortPress, longPress, extraLongPress>>

Defaults == <<DefaultDebounce, DefaultShortPress, DefaultLongPress,
              DefaultExtraLongPress>>

(* ---------------------------------------------------------------------- *)
(* pure parts of RecognizeAndPublish                                       *)
(* ---------------------------------------------------------------------- *)

(* mutant: a hold that has passed the gate is given up at the next tick *)
RecTickTimeout(n) ==
    IF n > 0 THEN (IF n >= TickGate THEN 0 ELSE n + 1) ELSE n

(* mutant: a tick is counted while no press is in progress *)
RecTickFromIdle(n) == n + 1

(* mutant: a tick counts twice while a press is in progress *)
RecTickTwice(n) == IF n > 0 THEN n + 2 ELSE n

(* case <-tickerCh: if ticks > 0 { ticks++ } *)
RecTick(n) == IF n > 0 THEN n + 1 ELSE n

(* mutant: the gate opens two ticks late *)
GateOpenLate(n) == n >= TickGate + 2

(* mutant: the gate is one tick early *)
GateOpenEarly(n) == n >= TickGate - 1

(* if ticks >= 2 : the release edge is taken as the end of the sequence *)
GateOpen(n) == n >= TickGate

(* dur = tr.t.Sub(btnDown) *)
DownDuration(t, down) == t - down

(* mutant: the check against debounceInterval is left out *)
RecognizeNoDebounce(d, db, sp, lp, elp) ==
    IF d >= elp THEN ExtraLongPress
    ELSE IF d < elp /\ d >= lp THEN LongPress
    ELSE IF d < lp /\ d >= sp THEN ShortPress
    ELSE Debounce

(* the value handed to publish for a duration, Debounce when nothing is *)
Recognize(d, db, sp, lp, elp) ==
    IF d < db THEN Debounce
    ELSE IF d >= elp THEN ExtraLongPress
    ELSE IF d < elp /\ d >= lp THEN LongPress
    ELSE IF d < lp /\ d >= sp THEN ShortPress
    ELSE Debounce

(* a send on a buffered channel that has room *)
ChanHasRoom(ch, cap) == Len(ch) < cap

(* everything but the button New builds *)
InitRun ==
    /\ now = 0
    /\ nProduced = 0
    /\ isrCap \in {0, MaxIsrCap}
    /\ isrChan = <<>>
    /\ isrBlocked = NoBounce
    /\ sysTicks = 0
    /\ pcTick = "idle"
    /\ tickCoalesced = FALSE
    /\ relayHeld = FALSE
    /\ tickerCh = 0
    /\ ticks = 0
    /\ btnDown = ZeroTime
    /\ dur = 0
    /\ pc = "select"
    /\ pubIdx = 0
    /\ pubVal = Debounce
    /\ outCh = [i \in Outs |-> <<>>]
    /\ nConsumed = 0
    /\ arm = NoBounce
    /\ since = 0
    /\ extraDowns = 0
    /\ last = NoStep
    /\ classified = <<>>
    /\ sent = [i \in Outs |-> <<>>]
    /\ pEdges = <<>>
    /\ pPos = [r \in Runs |-> 0]
    /\ pTickQ = [r \in Runs |-> 0]
    /\ pTicks = [r \in Runs |-> 0]
    /\ pDown = [r \in Runs |-> ZeroTime]
    /\ pArm = [r \in Runs |-> 0]
    /\ pLog = [r \in Runs |-> <<>>]
    /\ pSame = TRUE
    /\ err = NoError
    /\ ret = 0
    /\ call = NoCall
    /\ setPc = "idle"
    /\ rejectedAt = 0 - 1
    /\ rlAt = 0
    /\ rlTickQ = [b \in Btns |-> 0]
    /\ rlTicks = [b \in Btns |-> 0]
    /\ rlDown = [b \in Btns |-> ZeroTime]
    /\ rlPub = [b \in Btns |-> Debounce]
    /\ rlOut = [b \in Btns |-> <<>>]
    /\ rlEdges = [b \in Btns |-> 0]
    /\ scnPos = 0

(* the button as New(pin, q, name, isrChan, outChan1, outChan2) returns it *)
InitButton ==
    /\ built = "ok"
    /\ outChans = ExampleOuts
    /\ debounceInterval = DefaultDebounce
    /\ shortPress = DefaultShortPress
    /\ longPress = DefaultLongPress
    /\ extraLongPress = DefaultExtraLongPress
    /\ lastOk = Defaults

Init == InitRun /\ InitButton /\ scn = "none"

(* time passes between pin interrupts *)
Advance ==
    /\ nProduced < MaxEdges
    /\ \E t \in Instants : t > now /\ now' = t
    /\ UNCHANGED <<edgeVars, isrCap, tickVars, cfgVars, recVars, outCh,
                   ghostVars, sent>>
    /\ UNCHANGED <<pairVars, auxVars>>

(* mutant: a non-blocking send that gives the sample up when full *)
HandlePinNonBlocking ==
    /\ nProduced < MaxEdges
    /\ isrBlocked = NoBounce
    /\ \E s \in BOOLEAN :
        LET tr == [id |-> nProduced + 1, t |-> now, s |-> s] IN
        IF ChanHasRoom(isrChan, isrCap)
        THEN isrChan' = Append(isrChan, tr)
        ELSE isrChan' = isrChan
    /\ isrBlocked' = isrBlocked
    /\ nProduced' = nProduced + 1
    /\ UNCHANGED <<now, isrCap, tickVars, cfgVars, recVars, outCh,
                   ghostVars, sent>>
    /\ UNCHANGED <<pairVars, auxVars>>

(* HandlePin: b.isrChan <- Bounce{t: time.Now(), s: b.pin.Get()} *)
HandlePin ==
    /\ nProduced < MaxEdges
    /\ isrBlocked = NoBounce
    /\ \E s \in BOOLEAN :
        LET tr == [id |-> nProduced + 1, t |-> now, s |-> s] IN
        IF ChanHasRoom(isrChan, isrCap)
        THEN /\ isrChan' = Append(isrChan, tr)
             /\ isrBlocked' = isrBlocked
        ELSE /\ isrBlocked' = tr
             /\ isrChan' = isrChan
    /\ nProduced' = nProduced + 1
    /\ UNCHANGED <<now, isrCap, tickVars, cfgVars, recVars, outCh,
                   ghostVars, sent>>
    /\ UNCHANGED <<pairVars, auxVars>>

(* mutant: a plain send, which waits when the channel is full *)
SysTickOutcomeBlocking(n) == IF n < SysTicksCap THEN "sent" ELSE "blocked"

(* SysTick_Handler: select { case sysTicks <- struct{}{}: default: } *)
SysTickOutcome(n) == IF n < SysTicksCap THEN "sent" ELSE "dropped"

handleSystick ==
    /\ pcTick = "idle"
    /\ LET o == SysTickOutcome(sysTicks) IN
        /\ sysTicks' = IF o = "sent" THEN sysTicks + 1 ELSE sysTicks
        /\ tickCoalesced' = (o = "dropped")
        /\ pcTick' = IF o = "blocked" THEN "blocked" ELSE "idle"
    /\ UNCHANGED <<now, edgeVars, isrCap, relayHeld, tickerCh, cfgVars,
                   recVars, outCh, ghostVars, sent>>
    /\ UNCHANGED <<pairVars, auxVars>>

(* the relay: case <-tickCh: ... *)
RelayRecv ==
    /\ ~relayHeld
    /\ sysTicks > 0
    /\ sysTicks' = sysTicks - 1
    /\ relayHeld' = TRUE
    /\ UNCHANGED <<now, edgeVars, isrCap, pcTick, tickCoalesced, tickerCh,
                   cfgVars, recVars, outCh, ghostVars, sent>>
    /\ UNCHANGED <<pairVars, auxVars>>

(* the relay: btnTicker <- struct{}{} *)
RelaySend ==
    /\ relayHeld
    /\ tickerCh < TickerCap
    /\ tickerCh' = tickerCh + 1
    /\ relayHeld' = FALSE
    /\ UNCHANGED <<now, edgeVars, isrCap, sysTicks, pcTick, tickCoalesced,
                   cfgVars, recVars, outCh, ghostVars, sent>>
    /\ UNCHANGED <<pairVars, auxVars>>

(* RecognizeAndPublish, case <-tickerCh *)
RecvTick ==
    /\ pc = "select"
    /\ tickerCh > 0
    /\ ticks < MaxTicks
    /\ tickerCh' = tickerCh - 1
    /\ ticks' = RecTick(ticks)
    /\ since' = IF arm # NoBounce THEN since + 1 ELSE since
    /\ last' = [NoStep EXCEPT !.ev = "tick"]
    /\ UNCHANGED <<now, edgeVars, isrCap, sysTicks, pcTick, tickCoalesced,
                   relayHeld, cfgVars, btnDown, dur, pc, pubIdx, pubVal,
                   outCh, nConsumed, arm, extraDowns, classified, sent>>
    /\ UNCHANGED <<pairVars, auxVars>>

(* a receive from isrChan: the head of the buffer, or with no buffer the *)
(* sample of the parked sender; a parked sender then moves into the buffer *)
IsrReady == Len(isrChan) > 0 \/ isrBlocked # NoBounce

IsrHead == IF Len(isrChan) > 0 THEN Head(isrChan) ELSE isrBlocked

IsrAfterRecv ==
    IF Len(isrChan) = 0 THEN <<>>
    ELSE IF isrBlocked # NoBounce THEN Append(Tail(isrChan), isrBlocked)
    ELSE Tail(isrChan)

(* mutant: the hold is measured by counting ticks of the SysTick period *)
OnBounceTickTimed(n, down, d, tr) ==
    IF ~tr.s
    THEN IF n = 0
         THEN [ticks |-> 1, btnDown |-> tr.t, dur |-> d, res |-> "arm"]
         ELSE [ticks |-> n, btnDown |-> down, dur |-> d, res |-> "ignore"]
    ELSE IF n = 0
         THEN [ticks |-> n, btnDown |-> down, dur |-> d, res |-> "ignore"]
         ELSE IF GateOpen(n)
              THEN [ticks |-> 0, btnDown |-> ZeroTime,
                    dur |-> TickPeriod * (n - 1), res |-> "accept"]
              ELSE [ticks |-> n, btnDown |-> down, dur |-> d,
                    res |-> "reject"]

(* mutant: a press edge while armed restarts the measurement *)
OnBounceRearm(n, down, d, tr) ==
    IF ~tr.s
    THEN IF n = 0
         THEN [ticks |-> 1, btnDown |-> tr.t, dur |-> d, res |-> "arm"]
         ELSE [ticks |-> n, btnDown |-> tr.t, dur |-> d, res |-> "ignore"]
    ELSE IF n = 0
         THEN [ticks |-> n, btnDown |-> down, dur |-> d, res |-> "ignore"]
         ELSE IF GateOpen(n)
              THEN [ticks |-> 0, btnDown |-> ZeroTime,
                    dur |-> DownDuration(tr.t, down), res |-> "accept"]
              ELSE [ticks |-> n, btnDown |-> down, dur |-> d,
                    res |-> "reject"]

(* mutant: an accepted release leaves btnDown as it was *)
OnBounceKeepsDown(n, down, d, tr) ==
    IF ~tr.s
    THEN IF n = 0
         THEN [ticks |-> 1, btnDown |-> tr.t, dur |-> d, res |-> "arm"]
         ELSE [ticks |-> n, btnDown |-> down, dur |-> d, res |-> "ignore"]
    ELSE IF n = 0
         THEN [ticks |-> n, btnDown |-> down, dur |-> d, res |-> "ignore"]
         ELSE IF GateOpen(n)
              THEN [ticks |-> 0, btnDown |-> down,
                    dur |-> DownDuration(tr.t, down), res |-> "accept"]
              ELSE [ticks |-> n, btnDown |-> down, dur |-> d,
                    res |-> "reject"]

(* mutant: with no press in progress an edge of either polarity arms *)
OnBounceArmsOnRelease(n, down, d, tr) ==
    IF n = 0
    THEN [ticks |-> 1, btnDown |-> tr.t, dur |-> d, res |-> "arm"]
    ELSE IF ~tr.s
         THEN [ticks |-> n, btnDown |-> down, dur |-> d, res |-> "ignore"]
         ELSE IF GateOpen(n)
              THEN [ticks |-> 0, btnDown |-> ZeroTime,
                    dur |-> DownDuration(tr.t, down), res |-> "accept"]
              ELSE [ticks |-> n, btnDown |-> down, dur |-> d,
                    res |-> "reject"]

(* switch tr.s of RecognizeAndPublish: the new ticks, btnDown, dur and *)
(* what was done with the sample                                       *)
OnBounce(n, down, d, tr) ==
    IF ~tr.s
    THEN IF n = 0
         THEN [ticks |-> 1, btnDown |-> tr.t, dur |-> d, res |-> "arm"]
         ELSE [ticks |-> n, btnDown |-> down, dur |-> d, res |-> "ignore"]
    ELSE IF n = 0
         THEN [ticks |-> n, btnDown |-> down, dur |-> d, res |-> "ignore"]
         ELSE IF GateOpen(n)
              THEN [ticks |-> 0, btnDown |-> ZeroTime,
                    dur |-> DownDuration(tr.t, down), res |-> "accept"]
              ELSE [ticks |-> n, btnDown |-> down, dur |-> d,
                    res |-> "reject"]

(* mutant: publish stops after the first channel *)
PublishDoneFirst(i) == i >= 1

(* for i := range b.outChans : the loop of publish is over after index i *)
PublishDone(i) == i >= Len(outChans)

(* mutant: publish goes through the channels from the last to the first *)
PubChanReversed == outChans[Len(outChans) + 1 - pubIdx]

(* b.outChans[i] : the channel publish is sending on *)
PubChan == outChans[pubIdx]

(* mutant: an accepted release that fits no press is published as Debounce *)
RecvBounceReportsDebounce ==
    /\ pc = "select"
    /\ IsrReady
    /\ LET tr == IsrHead
           r == OnBounce(ticks, btnDown, dur, tr)
           v == IF r.res = "accept"
                THEN Recognize(r.dur, debounceInterval, shortPress,
                               longPress, extraLongPress)
                ELSE Debounce
       IN
        /\ isrChan' = IsrAfterRecv
        /\ isrBlocked' = NoBounce
        /\ nConsumed' = nConsumed + 1
        /\ ticks' = r.ticks
        /\ btnDown' = r.btnDown
        /\ dur' = r.dur
        /\ IF v # Debounce \/ r.res = "accept"
           THEN /\ pc' = "publish"
                /\ pubIdx' = 1
                /\ pubVal' = v
                /\ classified' = Append(classified, v)
           ELSE UNCHANGED <<pc, pubIdx, pubVal, classified>>
        /\ arm' = IF r.ticks = 0 THEN NoBounce
                  ELSE IF ticks = 0 THEN tr ELSE arm
        /\ since' = IF r.ticks = 0 \/ ticks = 0 THEN 0 ELSE since
        /\ extraDowns' = IF ticks = 0 THEN 0
                         ELSE IF ~tr.s THEN extraDowns + 1 ELSE extraDowns
        /\ last' = [ev |-> IF tr.s THEN "up" ELSE "down", res |-> r.res,
                    val |-> v]
    /\ UNCHANGED <<now, nProduced, isrCap, tickVars, cfgVars, outCh, sent>>
    /\ UNCHANGED <<pairVars, auxVars>>

(* RecognizeAndPublish, case tr := <-b.isrChan *)
RecvBounce ==
    /\ pc = "select"
    /\ IsrReady
    /\ LET tr == IsrHead
           r == OnBounce(ticks, btnDown, dur, tr)
           v == IF r.res = "accept"
                THEN Recognize(r.dur, debounceInterval, shortPress,
                               longPress, extraLongPress)
                ELSE Debounce
       IN
        /\ isrChan' = IsrAfterRecv
        /\ isrBlocked' = NoBounce
        /\ nConsumed' = nConsumed + 1
        /\ ticks' = r.ticks
        /\ btnDown' = r.btnDown
        /\ dur' = r.dur
        /\ IF v # Debounce
           THEN /\ pc' = "publish"
                /\ pubIdx' = 1
                /\ pubVal' = v
                /\ classified' = Append(classified, v)
           ELSE UNCHANGED <<pc, pubIdx, pubVal, classified>>
        /\ arm' = IF r.ticks = 0 THEN NoBounce
                  ELSE IF ticks = 0 THEN tr ELSE arm
        /\ since' = IF r.ticks = 0 \/ ticks = 0 THEN 0 ELSE since
        /\ extraDowns' = IF ticks = 0 THEN 0
                         ELSE IF ~tr.s THEN extraDowns + 1 ELSE extraDowns
        /\ last' = [ev |-> IF tr.s THEN "up" ELSE "down", res |-> r.res,
                    val |-> v]
    /\ UNCHANGED <<now, nProduced, isrCap, tickVars, cfgVars, outCh, sent>>
    /\ UNCHANGED <<pairVars, auxVars>>

(* RecognizeAndPublish, default: neither channel is ready, the select     *)
(* returns at once and the loop goes round again with nothing changed     *)
RecvDefault ==
    /\ pc = "select"
    /\ tickerCh = 0
    /\ ~IsrReady
    /\ UNCHANGED vars

(* publish: b.outChans[i] <- p, one channel after the other *)
PublishSend ==
    /\ pc = "publish"
    /\ ChanHasRoom(outCh[PubChan], OutCap)
    /\ outCh' = [outCh EXCEPT ![PubChan] = Append(@, pubVal)]
    /\ sent' = [sent EXCEPT ![PubChan] = Append(@, pubVal)]
    /\ IF PublishDone(pubIdx)
       THEN /\ pc' = "select"
            /\ pubIdx' = 0
            /\ pubVal' = Debounce
       ELSE /\ pubIdx' = pubIdx + 1
            /\ UNCHANGED <<pc, pubVal>>
    /\ UNCHANGED <<now, edgeVars, isrCap, tickVars, cfgVars, ticks, btnDown,
                   dur, ghostVars>>
    /\ UNCHANGED <<pairVars, auxVars>>

(* a subscriber (reactToPresses): case pl := <-ch *)
SubRecv ==
    /\ \E i \in Outs :
        /\ Len(outCh[i]) > 0
        /\ outCh' = [outCh EXCEPT ![i] = Tail(@)]
    /\ UNCHANGED <<now, edgeVars, isrCap, tickVars, cfgVars, recVars,
                   ghostVars, sent>>
    /\ UNCHANGED <<pairVars, auxVars>>

(* mutant: the lower limit itself is refused *)
DebounceErrStrict(t) ==
    IF t <= MinDebounce THEN ERROR_DEBOUNCE_TOO_SHORT
    ELSE IF t > MaxDebounce THEN ERROR_DEBOUNCE_TOO_LONG
    ELSE NoError

(* the error SetDebounceDuration(t) returns *)
DebounceErr(t) ==
    IF t < MinDebounce THEN ERROR_DEBOUNCE_TOO_SHORT
    ELSE IF t > MaxDebounce THEN ERROR_DEBOUNCE_TOO_LONG
    ELSE NoError

SetDebounceDuration ==
    /\ \E t \in DebounceInputs :
        IF DebounceErr(t) # NoError
        THEN debounceInterval' = debounceInterval
        ELSE debounceInterval' = t
    /\ UNCHANGED <<now, edgeVars, isrCap, tickVars, shortPress, longPress,
                   extraLongPress, recVars, outCh, ghostVars, sent>>
    /\ UNCHANGED <<pairVars, auxVars>>

(* mutant: lp is not compared with elp *)
PressDurationsErrShortOnly(sp, lp, elp) ==
    IF sp > lp \/ sp > elp THEN ERROR_TIMES_MUST_ASCEND
    ELSE NoError

(* mutant: sp is not compared with lp *)
PressDurationsErrLongOnly(sp, lp, elp) ==
    IF sp > elp \/ lp > elp THEN ERROR_TIMES_MUST_ASCEND
    ELSE NoError

(* the error SetPressDurations(sp, lp, elp) returns *)
PressDurationsErr(sp, lp, elp) ==
    IF sp > lp \/ sp > elp \/ lp > elp THEN ERROR_TIMES_MUST_ASCEND
    ELSE NoError

(* mutant: a successful SetPressDurations puts debounceInterval back to *)
(* its default                                                          *)
SetPressDurationsResetsDebounce ==
    /\ \E in \in PressInputs :
        LET sp == in[1]
            lp == in[2]
            elp == in[3]
        IN
        IF PressDurationsErr(sp, lp, elp) # NoError
        THEN UNCHANGED <<shortPress, longPress, extraLongPress,
                         debounceInterval>>
        ELSE /\ shortPress' = sp
             /\ longPress' = lp
             /\ extraLongPress' = elp
             /\ debounceInterval' = DefaultDebounce
    /\ UNCHANGED <<now, edgeVars, isrCap, tickVars, recVars, outCh,
                   ghostVars, sent>>
    /\ UNCHANGED <<pairVars, auxVars>>

(* a call of SetPressDurations that no other task observes half-way *)
SetPressDurations ==
    /\ \E in \in PressInputs :
        LET sp == in[1]
            lp == in[2]
            elp == in[3]
        IN
        IF PressDurationsErr(sp, lp, elp) # NoError
        THEN UNCHANGED <<shortPress, longPress, extraLongPress>>
        ELSE /\ shortPress' = sp
             /\ longPress' = lp
             /\ extraLongPress' = elp
    /\ UNCHANGED <<now, edgeVars, isrCap, tickVars, debounceInterval,
                   recVars, outCh, ghostVars, sent>>
    /\ UNCHANGED <<pairVars, auxVars>>

Next ==
    \/ Advance
    \/ HandlePin
    \/ handleSystick
    \/ RelayRecv
    \/ RelaySend
    \/ RecvTick
    \/ RecvBounce
    \/ RecvDefault
    \/ PublishSend
    \/ SubRecv
    \/ SetDebounceDuration
    \/ SetPressDurations

Spec == Init /\ [][Next]_vars

(* ---------------------------------------------------------------------- *)
(* two runs of RecognizeAndPublish on the same samples: the runs share     *)
(* the button's configuration and the sequence of samples HandlePin        *)
(* produced; each has its own tickerCh and its own order of receiving      *)
(* ---------------------------------------------------------------------- *)

(* the configuration is set before the first interrupt *)
PairSetDebounceDuration == pEdges = <<>> /\ SetDebounceDuration

(* HandlePin: the sample reaches both runs *)
PairHandlePin ==
    /\ Len(pEdges) < PairMaxEdges
    /\ \E t \in Instants, s \in BOOLEAN :
        /\ Len(pEdges) > 0 => t >= pEdges[Len(pEdges)].t
        /\ pEdges' = Append(pEdges, [id |-> Len(pEdges) + 1, t |-> t, s |-> s])
    /\ UNCHANGED <<pPos, pTickQ, pTicks, pDown, pArm, pLog, pSame>>
    /\ UNCHANGED <<soloVars, cfgVars, auxVars>>

(* a tick that reaches the tickerCh of both runs *)
PairTickBoth ==
    /\ \A r \in Runs : pTickQ[r] < TickerCap
    /\ pTickQ' = [r \in Runs |-> pTickQ[r] + 1]
    /\ UNCHANGED <<pEdges, pPos, pTicks, pDown, pArm, pLog, pSame>>
    /\ UNCHANGED <<soloVars, cfgVars, auxVars>>

(* a tick that reaches one run only (dropped or added for the other) *)
PairTickOne ==
    /\ \E r \in Runs :
        /\ pTickQ[r] < TickerCap
        /\ pTickQ' = [pTickQ EXCEPT ![r] = @ + 1]
    /\ pSame' = FALSE
    /\ UNCHANGED <<pEdges, pPos, pTicks, pDown, pArm, pLog>>
    /\ UNCHANGED <<soloVars, cfgVars, auxVars>>

(* RecognizeAndPublish of one run, case <-tickerCh *)
PairRecvTick ==
    /\ \E r \in Runs :
        /\ pTickQ[r] > 0
        /\ pTicks[r] < MaxTicks
        /\ pTickQ' = [pTickQ EXCEPT ![r] = @ - 1]
        /\ pTicks' = [pTicks EXCEPT ![r] = RecTick(@)]
    /\ UNCHANGED <<pEdges, pPos, pDown, pArm, pLog, pSame>>
    /\ UNCHANGED <<soloVars, cfgVars, auxVars>>

(* RecognizeAndPublish of one run, case tr := <-b.isrChan *)
PairRecvBounce ==
    /\ \E r \in Runs :
        /\ pPos[r] < Len(pEdges)
        /\ LET tr == pEdges[pPos[r] + 1]
               o == OnBounce(pTicks[r], pDown[r], 0, tr)
               v == IF o.res = "accept"
                    THEN Recognize(o.dur, debounceInterval, shortPress,
                                   longPress, extraLongPress)
                    ELSE Debounce
           IN
            /\ pPos' = [pPos EXCEPT ![r] = @ + 1]
            /\ pTicks' = [pTicks EXCEPT ![r] = o.ticks]
            /\ pDown' = [pDown EXCEPT ![r] = o.btnDown]
            /\ pArm' = [pArm EXCEPT ![r] =
                            IF o.ticks = 0 THEN 0
                            ELSE IF pTicks[r] = 0 THEN tr.id ELSE @]
            /\ pLog' = [pLog EXCEPT ![r] =
                            IF pTicks[r] > 0 /\ o.ticks = 0
                            THEN Append(@, [arm |-> pArm[r], rel |-> tr.id,
                                            late |-> pTicks[r] > TickGate,
                                            val |-> v])
                            ELSE @]
    /\ UNCHANGED <<pEdges, pTickQ, pSame>>
    /\ UNCHANGED <<soloVars, cfgVars, auxVars>>

NextPair ==
    \/ PairSetDebounceDuration
    \/ PairHandlePin
    \/ PairTickBoth
    \/ PairTickOne
    \/ PairRecvTick
    \/ PairRecvBounce

InitPair == Init /\ isrCap = 0

SpecPair == InitPair /\ [][NextPair]_vars

(* ---------------------------------------------------------------------- *)
(* construction and configuration: New, the setters and Duration are       *)
(* called by one task while RecognizeAndPublish runs in another.  The      *)
(* three field writes of SetPressDurations are separate steps, since       *)
(* nothing keeps the other task from running between them.                 *)
(* ---------------------------------------------------------------------- *)

(* the output channels handed to New: none, one, two in reverse order *)
NewInputs == {<<>>, <<2>>, <<2, 1>>}

(* arguments of the setters: those above, two more ascending triples and   *)
(* the lower limit of the debounce range                                   *)
CallPressInputs == PressInputs \cup {<<20, 500, 1500>>, <<1971, 1971, 1971>>}
CallDebounceInputs == DebounceInputs \cup {MinDebounce}

(* PressLength is a uint8: the four constants and two other values *)
DurationInputs ==
    {Debounce, ShortPress, LongPress, ExtraLongPress, 4, 255}

(* the error New returns *)
NewErr(outs) ==
    IF Len(outs) < 1 THEN ERROR_NO_OUTPUT_CHANNELS ELSE NoError

(* mutant: the channels are collected in reverse order *)
NewOutChansReversed(outs) ==
    [i \in 1..Len(outs) |-> outs[Len(outs) + 1 - i]]

(* for i := range outs { outChans = append(outChans, outs[i]) } *)
NewOutChans(outs) == [i \in 1..Len(outs) |-> outs[i]]

New ==
    /\ built = "none"
    /\ \E outs \in NewInputs :
        /\ call' = [op |-> "New", arg |-> outs, pre |-> Fields]
        /\ err' = NewErr(outs)
        /\ IF NewErr(outs) # NoError
           THEN /\ built' = "nil"
                /\ UNCHANGED <<cfgVars, outChans, lastOk>>
           ELSE /\ built' = "ok"
                /\ outChans' = NewOutChans(outs)
                /\ debounceInterval' = DefaultDebounce
                /\ shortPress' = DefaultShortPress
                /\ longPress' = DefaultLongPress
                /\ extraLongPress' = DefaultExtraLongPress
                /\ lastOk' = Defaults
    /\ UNCHANGED <<ret, setPc, rejectedAt>>
    /\ UNCHANGED soloVars
    /\ UNCHANGED <<pairVars, relayVars, scnVars>>

SetDebounceDurationCall ==
    /\ built = "ok"
    /\ setPc = "idle"
    /\ \E t \in CallDebounceInputs :
        /\ call' = [op |-> "SetDebounceDuration", arg |-> <<t>>,
                    pre |-> Fields]
        /\ err' = DebounceErr(t)
        /\ IF DebounceErr(t) # NoError
           THEN UNCHANGED <<debounceInterval, lastOk>>
           ELSE /\ debounceInterval' = t
                /\ lastOk' = [lastOk EXCEPT ![1] = t]
    /\ ret' = 0
    /\ UNCHANGED <<shortPress, longPress, extraLongPress, built, outChans,
                   setPc, rejectedAt>>
    /\ UNCHANGED soloVars
    /\ UNCHANGED <<pairVars, relayVars, scnVars>>

(* SetPressDurations: the check and, if it passes, b.shortPress = sp *)
SetPressDurationsCall ==
    /\ built = "ok"
    /\ setPc = "idle"
    /\ \E in \in CallPressInputs :
        /\ call' = [op |-> "SetPressDurations", arg |-> in, pre |-> Fields]
        /\ IF PressDurationsErr(in[1], in[2], in[3]) # NoError
           THEN /\ err' = PressDurationsErr(in[1], in[2], in[3])
                /\ rejectedAt' = IF rejectedAt < 0 THEN Len(classified)
                                 ELSE rejectedAt
                /\ UNCHANGED <<shortPress, setPc>>
           ELSE /\ shortPress' = in[1]
                /\ setPc' = "wroteShort"
                /\ UNCHANGED <<err, rejectedAt>>
    /\ ret' = 0
    /\ UNCHANGED <<debounceInterval, longPress, extraLongPress, built,
                   outChans, lastOk>>
    /\ UNCHANGED soloVars
    /\ UNCHANGED <<pairVars, relayVars, scnVars>>

(* SetPressDurations: b.longPress = lp *)
SetPressDurationsLong ==
    /\ setPc = "wroteShort"
    /\ longPress' = call.arg[2]
    /\ setPc' = "wroteLong"
    /\ UNCHANGED <<debounceInterval, shortPress, extraLongPress, built,
                   outChans, err, ret, call, lastOk, rejectedAt>>
    /\ UNCHANGED soloVars
    /\ UNCHANGED <<pairVars, relayVars, scnVars>>

(* SetPressDurations: b.extraLongPress = elp; return nil *)
SetPressDurationsExtraLong ==
    /\ setPc = "wroteLong"
    /\ extraLongPress' = call.arg[3]
    /\ setPc' = "idle"
    /\ err' = NoError
    /\ lastOk' = <<lastOk[1], call.arg[1], call.arg[2], call.arg[3]>>
    /\ UNCHANGED <<debounceInterval, shortPress, longPress, built, outChans,
                   ret, call, rejectedAt>>
    /\ UNCHANGED soloVars
    /\ UNCHANGED <<pairVars, relayVars, scnVars>>

(* mutant: the cases of LongPress and ExtraLongPress are exchanged *)
DurationSwapped(l) ==
    IF l = Debounce THEN [d |-> debounceInterval, err |-> NoError]
    ELSE IF l = ShortPress THEN [d |-> shortPress, err |-> NoError]
    ELSE IF l = LongPress THEN [d |-> extraLongPress, err |-> NoError]
    ELSE IF l = ExtraLongPress THEN [d |-> longPress, err |-> NoError]
    ELSE [d |-> 0, err |-> ERROR_INVALID_PRESSLENGTH]

(* Duration(l): switch l, and the two values it returns *)
Duration(l) ==
    IF l = Debounce THEN [d |-> debounceInterval, err |-> NoError]
    ELSE IF l = ShortPress THEN [d |-> shortPress, err |-> NoError]
    ELSE IF l = LongPress THEN [d |-> longPress, err |-> NoError]
    ELSE IF l = ExtraLongPress THEN [d |-> extraLongPress, err |-> NoError]
    ELSE [d |-> 0, err |-> ERROR_INVALID_PRESSLENGTH]

DurationCall ==
    /\ built = "ok"
    /\ setPc = "idle"
    /\ \E l \in DurationInputs :
        /\ call' = [op |-> "Duration", arg |-> <<l>>, pre |-> Fields]
        /\ ret' = Duration(l).d
        /\ err' = Duration(l).err
    /\ UNCHANGED <<cfgVars, built, outChans, setPc, lastOk, rejectedAt>>
    /\ UNCHANGED soloVars
    /\ UNCHANGED <<pairVars, relayVars, scnVars>>

(* SysTick_Handler of a program with a single button, which hands the    *)
(* tick channel itself to RecognizeAndPublish: select { case tickCh <-    *)
(* struct{}{}: default: }                                                 *)
handleSystickDirect ==
    /\ tickerCh' = IF SysTickOutcome(tickerCh) = "sent" THEN tickerCh + 1
                   ELSE tickerCh
    /\ UNCHANGED <<now, edgeVars, isrCap, sysTicks, pcTick, tickCoalesced,
                   relayHeld, cfgVars, recVars, outCh, ghostVars, sent>>
    /\ UNCHANGED <<pairVars, auxVars>>

(* the interrupts and RecognizeAndPublish of the button New returned *)
SetupRun ==
    /\ built = "ok"
    /\ \/ nProduced < SetupMaxEdges /\ Advance
       \/ nProduced < SetupMaxEdges /\ HandlePin
       \/ handleSystickDirect
       \/ RecvTick
       \/ RecvBounce
       \/ PublishSend

(* the task that builds and configures the button, alone *)
NextCfg ==
    \/ New
    \/ SetDebounceDurationCall
    \/ SetPressDurationsCall
    \/ SetPressDurationsLong
    \/ SetPressDurationsExtraLong
    \/ DurationCall

(* the task that builds the button and sets its thresholds, next to the   *)
(* interrupts and RecognizeAndPublish                                      *)
NextSetup ==
    \/ New
    \/ SetPressDurationsCall
    \/ SetPressDurationsLong
    \/ SetPressDurationsExtraLong
    \/ SetupRun

(* before New: no button, the fields of no button read as zero *)
InitCfg ==
    /\ InitRun
    /\ isrCap = MaxIsrCap
    /\ built = "none"
    /\ outChans = <<>>
    /\ debounceInterval = 0
    /\ shortPress = 0
    /\ longPress = 0
    /\ extraLongPress = 0
    /\ lastOk = <<0, 0, 0, 0>>
    /\ scn = "none"

SpecCfg == InitCfg /\ [][NextCfg]_vars

SpecSetup == InitCfg /\ [][NextSetup]_vars

(* one subscriber takes a value from its channel *)
SubRecvOf(i) == SubRecv /\ outCh'[i] # outCh[i]

(* the button with its default configuration under a fair scheduler: the   *)
(* tick handler sends to tickerCh itself; a task that can go on does go on *)
NextLive ==
    \/ Advance
    \/ HandlePin
    \/ handleSystickDirect
    \/ RecvTick
    \/ RecvBounce
    \/ RecvDefault
    \/ PublishSend
    \/ SubRecv

Fairness ==
    /\ WF_vars(RecvTick)
    /\ WF_vars(RecvBounce)
    /\ WF_vars(PublishSend)
    /\ \A i \in Outs : WF_vars(SubRecvOf(i))

SpecLive == Init /\ [][NextLive]_vars /\ Fairness

(* ---------------------------------------------------------------------- *)
(* a relay that fans the ticks out to two buttons: publishSystick of the   *)
(* README with one send per consumer where it says "add systick consumers  *)
(* here".  Each button has its own tickerCh, its own RecognizeAndPublish   *)
(* and one output channel with its own subscriber.                         *)
(* ---------------------------------------------------------------------- *)

(* publishSystick: case <-tickCh *)
FanRecv ==
    /\ rlAt = 0
    /\ sysTicks > 0
    /\ sysTicks' = sysTicks - 1
    /\ rlAt' = 1
    /\ UNCHANGED <<rlTickQ, rlTicks, rlDown, rlPub, rlOut, rlEdges>>
    /\ UNCHANGED <<now, edgeVars, isrCap, pcTick, tickCoalesced, relayHeld,
                   tickerCh, cfgVars, recVars, outCh, ghostVars, sent>>
    /\ UNCHANGED <<pairVars, callVars, scnVars>>

(* publishSystick: btnTicker <- struct{}{} for the button it has come to *)
FanSend ==
    /\ rlAt \in Btns
    /\ rlTickQ[rlAt] < TickerCap
    /\ rlTickQ' = [rlTickQ EXCEPT ![rlAt] = @ + 1]
    /\ rlAt' = IF rlAt + 1 \in Btns THEN rlAt + 1 ELSE 0
    /\ UNCHANGED <<rlTicks, rlDown, rlPub, rlOut, rlEdges>>
    /\ UNCHANGED soloVars
    /\ UNCHANGED <<cfgVars, pairVars, callVars, scnVars>>

(* RecognizeAndPublish of one button, case <-tickerCh *)
FanRecvTick ==
    /\ \E b \in Btns :
        /\ rlPub[b] = Debounce
        /\ rlTickQ[b] > 0
        /\ rlTicks[b] < MaxTicks
        /\ rlTickQ' = [rlTickQ EXCEPT ![b] = @ - 1]
        /\ rlTicks' = [rlTicks EXCEPT ![b] = RecTick(@)]
    /\ UNCHANGED <<rlAt, rlDown, rlPub, rlOut, rlEdges>>
    /\ UNCHANGED soloVars
    /\ UNCHANGED <<cfgVars, pairVars, callVars, scnVars>>

(* RecognizeAndPublish of one button, case tr := <-b.isrChan, the sample *)
(* being the one its HandlePin takes now                                  *)
FanRecvBounce ==
    /\ \E b \in Btns, s \in BOOLEAN :
        /\ rlPub[b] = Debounce
        /\ rlEdges[b] < RelayMaxEdges
        /\ LET tr == [id |-> rlEdges[b] + 1, t |-> now, s |-> s]
               o == OnBounce(rlTicks[b], rlDown[b], 0, tr)
               v == IF o.res = "accept"
                    THEN Recognize(o.dur, debounceInterval, shortPress,
                                   longPress, extraLongPress)
                    ELSE Debounce
           IN
            /\ rlEdges' = [rlEdges EXCEPT ![b] = @ + 1]
            /\ rlTicks' = [rlTicks EXCEPT ![b] = o.ticks]
            /\ rlDown' = [rlDown EXCEPT ![b] = o.btnDown]
            /\ rlPub' = [rlPub EXCEPT ![b] = v]
    /\ UNCHANGED <<rlAt, rlTickQ, rlOut>>
    /\ UNCHANGED soloVars
    /\ UNCHANGED <<cfgVars, pairVars, callVars, scnVars>>

(* publish of one button: b.outChans[0] <- p *)
FanPublishSend ==
    /\ \E b \in Btns :
        /\ rlPub[b] # Debounce
        /\ ChanHasRoom(rlOut[b], OutCap)
        /\ rlOut' = [rlOut EXCEPT ![b] = Append(@, rlPub[b])]
        /\ rlPub' = [rlPub EXCEPT ![b] = Debounce]
    /\ UNCHANGED <<rlAt, rlTickQ, rlTicks, rlDown, rlEdges>>
    /\ UNCHANGED soloVars
    /\ UNCHANGED <<cfgVars, pairVars, callVars, scnVars>>

(* the subscriber of one button: case pl := <-ch *)
FanSubRecv ==
    /\ \E b \in Btns :
        /\ Len(rlOut[b]) > 0
        /\ rlOut' = [rlOut EXCEPT ![b] = Tail(@)]
    /\ UNCHANGED <<rlAt, rlTickQ, rlTicks, rlDown, rlPub, rlEdges>>
    /\ UNCHANGED soloVars
    /\ UNCHANGED <<cfgVars, pairVars, callVars, scnVars>>

(* time passes between the pin interrupts of the two buttons *)
FanAdvance ==
    /\ \E b \in Btns : rlEdges[b] < RelayMaxEdges
    /\ Advance

NextRelay ==
    \/ FanAdvance
    \/ handleSystick
    \/ FanRecv
    \/ FanSend
    \/ FanRecvTick
    \/ FanRecvBounce
    \/ FanPublishSend
    \/ FanSubRecv

InitRelay == Init /\ isrCap = 0

SpecRelay == InitRelay /\ [][NextRelay]_vars

(* ---------------------------------------------------------------------- *)
(* scripted runs: the thresholds are set to 20, 500 and 1500 ms, then the  *)
(* events of one script are produced in order, each when the ones before   *)
(* it have been consumed; the relay, RecognizeAndPublish and the           *)
(* subscribers run as they do in Spec                                      *)
(* ---------------------------------------------------------------------- *)

ScnThresholds == <<20, 500, 1500>>

Scenarios == {"A", "B", "C", "D"}

(* the pin interrupts (with the level the pin has) and the SysTicks of a   *)
(* script, with the time of each                                           *)
Script(id) ==
    IF id = "A" THEN <<[ev |-> "down", t |-> 0], [ev |-> "tick", t |-> 25],
                       [ev |-> "tick", t |-> 50], [ev |-> "up", t |-> 60]>>
    ELSE IF id = "B" THEN <<[ev |-> "down", t |-> 0], [ev |-> "up", t |-> 10]>>
    ELSE IF id = "C" THEN <<[ev |-> "down", t |-> 0], [ev |-> "tick", t |-> 25],
                            [ev |-> "tick", t |-> 50],
                            [ev |-> "up", t |-> 2000]>>
    ELSE IF id = "D" THEN <<[ev |-> "down", t |-> 0], [ev |-> "tick", t |-> 5],
                            [ev |-> "tick", t |-> 10], [ev |-> "up", t |-> 15]>>
    ELSE <<>>

(* every sample and tick produced has been received and publish is over *)
Quiet ==
    /\ isrChan = <<>> /\ isrBlocked = NoBounce
    /\ sysTicks = 0 /\ ~relayHeld /\ tickerCh = 0
    /\ pc = "select"

(* SetPressDurations(20ms, 500ms, 1500ms) before the first event *)
ScnSetPressDurations ==
    /\ scnPos = 0
    /\ Thresholds # ScnThresholds
    /\ PressDurationsErr(ScnThresholds[1], ScnThresholds[2],
                         ScnThresholds[3]) = NoError
    /\ shortPress' = ScnThresholds[1]
    /\ longPress' = ScnThresholds[2]
    /\ extraLongPress' = ScnThresholds[3]
    /\ UNCHANGED <<debounceInterval, scn, scnPos>>
    /\ UNCHANGED soloVars
    /\ UNCHANGED <<pairVars, callVars, relayVars>>

(* the next event of the script is a pin interrupt: HandlePin *)
ScnHandlePin ==
    /\ Thresholds = ScnThresholds
    /\ scnPos < Len(Script(scn))
    /\ Quiet
    /\ LET e == Script(scn)[scnPos + 1]
           tr == [id |-> nProduced + 1, t |-> e.t, s |-> e.ev = "up"]
       IN
        /\ e.ev \in {"down", "up"}
        /\ now' = e.t
        /\ IF ChanHasRoom(isrChan, isrCap)
           THEN /\ isrChan' = Append(isrChan, tr)
                /\ isrBlocked' = isrBlocked
           ELSE /\ isrBlocked' = tr
                /\ isrChan' = isrChan
    /\ nProduced' = nProduced + 1
    /\ scnPos' = scnPos + 1
    /\ UNCHANGED <<isrCap, tickVars, cfgVars, recVars, outCh, ghostVars,
                   sent, scn>>
    /\ UNCHANGED <<pairVars, callVars, relayVars>>

(* the next event of the script is a SysTick: SysTick_Handler *)
ScnSystick ==
    /\ Thresholds = ScnThresholds
    /\ scnPos < Len(Script(scn))
    /\ Quiet
    /\ pcTick = "idle"
    /\ LET e == Script(scn)[scnPos + 1]
           o == SysTickOutcome(sysTicks)
       IN
        /\ e.ev = "tick"
        /\ now' = e.t
        /\ sysTicks' = IF o = "sent" THEN sysTicks + 1 ELSE sysTicks
        /\ tickCoalesced' = (o = "dropped")
        /\ pcTick' = IF o = "blocked" THEN "blocked" ELSE "idle"
    /\ scnPos' = scnPos + 1
    /\ UNCHANGED <<edgeVars, isrCap, relayHeld, tickerCh, cfgVars, recVars,
                   outCh, ghostVars, sent, scn>>
    /\ UNCHANGED <<pairVars, callVars, relayVars>>

NextScn ==
    \/ ScnSetPressDurations
    \/ ScnHandlePin
    \/ ScnSystick
    \/ RelayRecv
    \/ RelaySend
    \/ RecvTick
    \/ RecvBounce
    \/ PublishSend
    \/ SubRecv

InitScn == InitRun /\ InitButton /\ scn \in Scenarios

SpecScn == InitScn /\ [][NextScn]_vars

(* ---------------------------------------------------------------------- *)
(* properties                                                              *)
(* ---------------------------------------------------------------------- *)

(* the step is a receive from isrChan by RecognizeAndPublish *)
BounceStep == nConsumed' = nConsumed + 1

(* the step takes a release edge as the end of the sequence *)
AcceptStep == BounceStep /\ IsrHead.s /\ ticks > 0 /\ ticks' = 0

(* the value handed to publish by the step, Debounce when none is *)
StepValue ==
    IF Len(classified') > Len(classified)
    THEN classified'[Len(classified')]
    ELSE Debounce

(* release timestamp minus the timestamp of the press that armed *)
StepD == IsrHead.t - arm.t

C2_RejectBelowKTicks ==
    [][(BounceStep /\ IsrHead.s /\ arm # NoBounce /\ since < TickGate) =>
        /\ classified' = classified
        /\ ticks' = ticks /\ ticks' > 0
        /\ btnDown' = btnDown]_vars

(* C2 amended: a release edge consumed while the counter is below k = 2,   *)
(* that is with fewer than k - 1 ticks (none) consumed since the arming    *)
(* press, publishes nothing and leaves the recognizer armed with counter   *)
(* and pressStart unchanged.                                               *)
C2_RejectBelowGate ==
    [][(BounceStep /\ IsrHead.s /\ arm # NoBounce /\ since < TickGate - 1) =>
        /\ classified' = classified
        /\ pc' = "select"
        /\ ticks' = ticks /\ ticks' > 0
        /\ btnDown' = btnDown /\ btnDown' = arm.t
        /\ arm' = arm]_vars

(* a release was just rejected with no tick since the press *)
C2_Witness ==
    /\ last.ev = "up" /\ last.res = "reject"
    /\ since = 0 /\ ticks = 1 /\ btnDown = arm.t /\ arm # NoBounce

(* C3: a press edge consumed while armed changes neither pressStart nor    *)
(* the counter, and the duration computed at the accepted release is the   *)
(* release timestamp minus the timestamp of the press that armed.          *)
C3_PressWhileArmedIgnored ==
    [][/\ (BounceStep /\ ~IsrHead.s /\ ticks > 0) =>
            (btnDown' = btnDown /\ ticks' = ticks /\ arm' = arm)
       /\ AcceptStep => dur' = StepD]_vars

(* a release was accepted after a later press edge had been consumed      *)
(* while armed: the press that armed is not the newest press consumed      *)
C3_Witness ==
    /\ last.ev = "up" /\ last.res = "accept"
    /\ extraDowns > 0

IsPrefix(a, b) == Len(a) <= Len(b) /\ SubSeq(b, 1, Len(a)) = a

(* C6: every value handed to publish is sent on every output channel      *)
(* exactly once and in order: what each channel was sent is a prefix of    *)
(* the sequence of classifications, all of it once publish has returned,   *)
(* and inside publish all of it for the channels already served and all    *)
(* but the last value for the others.                                      *)
C6_SameSequenceEverywhere ==
    \A i \in Outs :
        /\ IsPrefix(sent[i], classified)
        /\ pc = "select" => sent[i] = classified
        /\ (pc = "publish" /\ i < pubIdx) => sent[i] = classified
        /\ (pc = "publish" /\ i >= pubIdx) =>
               sent[i] = SubSeq(classified, 1, Len(classified) - 1)

(* two different values have been published to every channel *)
C6_Witness ==
    /\ pc = "select"
    /\ Len(classified) = 2 /\ classified[1] # classified[2]
    /\ \A i \in Outs : sent[i] = classified

(* C7: a full subscriber queue never stalls RecognizeAndPublish: whenever  *)
(* it is inside publish, the channel it is about to send on has room.      *)
C7_PublishNeverWaits ==
    pc = "publish" => ChanHasRoom(outCh[PubChan], OutCap)

(* the samples sent and not yet received, oldest first *)
InFlight ==
    IF isrBlocked # NoBounce THEN Append(isrChan, isrBlocked) ELSE isrChan

(* C8: no sample is dropped, duplicated or reordered between HandlePin    *)
(* and RecognizeAndPublish: the samples in flight are exactly the samples  *)
(* produced and not yet consumed, in production order, for every buffer    *)
(* size of isrChan.                                                        *)
C8_EdgesInOrderExactlyOnce ==
    /\ Len(InFlight) = nProduced - nConsumed
    /\ \A k \in 1..Len(InFlight) : InFlight[k].id = nConsumed + k
    /\ Len(isrChan) <= isrCap

(* samples were consumed while one was buffered and one sender was parked *)
C8_Witness ==
    /\ nConsumed >= 2
    /\ Len(isrChan) > 0 /\ isrBlocked # NoBounce

(* C9: HandlePin always returns at once: no call is ever parked in its     *)
(* send on isrChan.                                                        *)
C9_HandlePinNeverWaits == isrBlocked = NoBounce

(* C10: the SysTick handler never waits and the tick channel never holds   *)
(* more than one tick, whatever the relay and the recognizer are doing.    *)
C10_TickIntakeNeverBlocks ==
    /\ pcTick = "idle"
    /\ sysTicks <= SysTicksCap

(* a tick was fired onto a full channel while the relay waits to forward   *)
(* and the recognizer waits in publish                                     *)
C10_Witness ==
    /\ tickCoalesced /\ sysTicks = SysTicksCap
    /\ relayHeld /\ tickerCh = TickerCap
    /\ pc = "publish" /\ ~ChanHasRoom(outCh[PubChan], OutCap)

(* the two runs accepted the same release for the same arming press *)
SameAccept(a, b) == a.arm = b.arm /\ a.rel = b.rel

Entries(r) == {pLog[r][i] : i \in 1..Len(pLog[r])}

(* C4: two runs that consume the same edges and any two tick sequences     *)
(* publish the same value (or both nothing) whenever both accept the same  *)
(* release edge for the same arming press edge.                            *)
C4_ValueIndependentOfTicks ==
    \A a \in Entries(1), b \in Entries(2) :
        SameAccept(a, b) => a.val = b.val

(* both runs accepted the same release for the same press, one with the    *)
(* counter at the gate and one with it above, and a value was published    *)
C4_Witness ==
    /\ ~pSame
    /\ \E a \in Entries(1), b \in Entries(2) :
        SameAccept(a, b) /\ a.late # b.late /\ a.val # Debounce

(* every sample produced and every tick delivered has been received *)
Drained == \A r \in Runs : pPos[r] = Len(pEdges) /\ pTickQ[r] = 0

(* the values a run handed to publish, in order *)
RECURSIVE Published(_)
Published(log) ==
    IF log = <<>> THEN <<>>
    ELSE IF Head(log).val = Debounce THEN Published(Tail(log))
    ELSE <<Head(log).val>> \o Published(Tail(log))

(* C5 as stated: for the same ticks and edges, two orders of receiving     *)
(* them publish the same sequence of values.                               *)
C5_SamePublicationsAnyOrder ==
    (pSame /\ Drained) => Published(pLog[1]) = Published(pLog[2])

(* C5 amended: for the same ticks and edges, the order of receiving a      *)
(* pending tick and a pending edge may change which release is accepted,   *)
(* but a release that both orders accept for the same arming press         *)
(* publishes the same value in both.                                       *)
C5_SameValueAnyOrder ==
    pSame =>
        \A a \in Entries(1), b \in Entries(2) :
            SameAccept(a, b) => a.val = b.val

(* the same ticks and edges, received in two orders: both runs accepted    *)
(* the same release for the same press, one with the counter at the gate   *)
(* and one with it above                                                   *)
C5_Witness ==
    /\ pSame /\ Drained
    /\ \E a \in Entries(1), b \in Entries(2) :
        SameAccept(a, b) /\ a.late # b.late /\ a.val # Debounce

(* C11: a tick for one button never holds the relay back from the others:  *)
(* the relay is never at a send to a button whose tickerCh still holds the *)
(* previous tick (the tick would be given up for that button only).        *)
C11_RelayNeverWaitsOnOneButton ==
    rlAt \in Btns => rlTickQ[rlAt] < TickerCap

(* the press thresholds when the call last started began *)
ThresholdsBefore == <<call.pre[2], call.pre[3], call.pre[4]>>

(* the call last started was SetPressDurations and it has returned *)
SetPressReturned == call.op = "SetPressDurations" /\ setPc = "idle"

(* C12: SetPressDurations(sp, lp, elp) returns an error iff sp > lp or     *)
(* lp > elp; a call that returned an error left the three thresholds as    *)
(* they were, a call that returned nil set them to (sp, lp, elp).          *)
C12_SetPressDurationsResult ==
    SetPressReturned =>
        /\ (err # NoError) <=>
               (call.arg[1] > call.arg[2] \/ call.arg[2] > call.arg[3])
        /\ err # NoError =>
               (err = ERROR_TIMES_MUST_ASCEND /\ Thresholds = ThresholdsBefore)
        /\ err = NoError => Thresholds = call.arg
        /\ debounceInterval = call.pre[1]

(* a call succeeded that replaced thresholds set by an earlier call *)
C12_Witness ==
    /\ SetPressReturned /\ err = NoError
    /\ ThresholdsBefore # <<DefaultShortPress, DefaultLongPress,
                            DefaultExtraLongPress>>
    /\ Thresholds # ThresholdsBefore

C14_NewNeedsOutputChannels ==
    /\ built = "nil" =>
            /\ call.op = "New" /\ call.arg = <<>>
            /\ err = ERROR_NO_OUTPUT_CHANNELS
            /\ outChans = <<>>
    /\ (call.op = "New" /\ call.arg = <<>>) => built = "nil"
    /\ (call.op = "New" /\ call.arg # <<>>) =>
            /\ built = "ok" /\ err = NoError
            /\ outChans = call.arg
            /\ Fields = Defaults
    /\ built = "ok" => (outChans \in NewInputs /\ Len(outChans) >= 1)

(* New was given channel 2 before channel 1 and publish has sent on        *)
(* channel 2 and not yet on channel 1                                      *)
C14_Witness ==
    /\ built = "ok" /\ outChans = <<2, 1>>
    /\ pc = "publish" /\ pubIdx = 2
    /\ sent[2] # <<>> /\ sent[1] = <<>>

(* C15: SetDebounceDuration(t) returns nil iff 10ms <= t <= 30ms; a call   *)
(* that returned an error left debounceInterval as it was, a call that     *)
(* returned nil set it to t.                                               *)
C15_SetDebounceDurationResult ==
    call.op = "SetDebounceDuration" =>
        /\ (err = NoError) <=>
               (MinDebounce <= call.arg[1] /\ call.arg[1] <= MaxDebounce)
        /\ err # NoError => debounceInterval = call.pre[1]
        /\ err = NoError => debounceInterval = call.arg[1]
        /\ Thresholds = ThresholdsBefore

(* a value above the range was refused after the lower limit had been set *)
C15_Witness ==
    /\ call.op = "SetDebounceDuration"
    /\ err = ERROR_DEBOUNCE_TOO_LONG
    /\ debounceInterval = MinDebounce

(* C16: short <= long <= extraLong holds of the button's thresholds in     *)
(* every state, also between the writes of a SetPressDurations call that   *)
(* another task can observe.                                               *)
C16_ThresholdsAlwaysAscend ==
    built = "ok" => (shortPress <= longPress /\ longPress <= extraLongPress)

(* C20: Duration(l) returns, with no error, the value last set with        *)
(* success for each of the four PressLength constants (the default if      *)
(* none was); for any other value it returns 0 and an error; it changes    *)
(* no field.                                                               *)
C20_DurationReadsBack ==
    call.op = "Duration" =>
        /\ call.arg[1] \in {Debounce, ShortPress, LongPress, ExtraLongPress}
               => (ret = lastOk[call.arg[1] + 1] /\ err = NoError)
        /\ call.arg[1] \notin {Debounce, ShortPress, LongPress,
                                ExtraLongPress}
               => (ret = 0 /\ err = ERROR_INVALID_PRESSLENGTH)
        /\ Fields = call.pre
        /\ Fields = lastOk

(* after both setters succeeded, Duration(ExtraLongPress) returned the     *)
(* value set                                                               *)
C20_Witness ==
    /\ call.op = "Duration" /\ call.arg = <<ExtraLongPress>>
    /\ lastOk = <<MaxDebounce, 20, 500, 1500>>
    /\ ret = 1500 /\ err = NoError

(* the values a subscriber reacts to as presses *)
Presses == {ShortPress, LongPress, ExtraLongPress}

(* C17: only ShortPress, LongPress or ExtraLongPress is handed to publish  *)
(* and sent on an output channel, never Debounce (0); the receive of an    *)
(* edge hands at most one value to publish, the receive of a tick none,    *)
(* and an output channel changes only by a send of the value being         *)
(* published or by its subscriber's receive.                               *)
C17_OnlyPressesPublished ==
    [][/\ classified' # classified =>
            /\ BounceStep
            /\ classified' = Append(classified, StepValue)
            /\ StepValue \in Presses
            /\ pc' = "publish" /\ pubVal' = StepValue
       /\ (BounceStep /\ classified' = classified) =>
            (pc' = "select" /\ outCh' = outCh /\ sent' = sent)
       /\ tickerCh' < tickerCh =>
            (classified' = classified /\ pc' = pc /\ outCh' = outCh
             /\ sent' = sent)
       /\ \A i \in Outs :
            /\ sent'[i] # sent[i] =>
                 /\ pc = "publish" /\ pubVal \in Presses
                 /\ sent'[i] = Append(sent[i], pubVal)
                 /\ outCh'[i] = Append(outCh[i], pubVal)
            /\ (outCh'[i] # outCh[i] /\ sent'[i] = sent[i]) =>
                 outCh'[i] = Tail(outCh[i])]_vars

(* after a press was published to every channel, an accepted release that  *)
(* fits no press was absorbed                                              *)
C17_Witness ==
    /\ Len(classified) >= 1
    /\ last.ev = "up" /\ last.res = "accept" /\ last.val = Debounce
    /\ \A i \in Outs : sent[i] = classified

(* C18: there is no hold timeout: while the recognizer is armed, a step    *)
(* that is not the receive of a release edge (a tick, a press edge, time   *)
(* passing) leaves it armed on the same press and publishes nothing, and   *)
(* a value is handed to publish only by the receive of a release edge.     *)
C18_ArmedUntilRelease ==
    [][/\ (ticks > 0 /\ ~(BounceStep /\ IsrHead.s)) =>
            /\ ticks' > 0 /\ ticks' >= ticks
            /\ btnDown' = btnDown
            /\ arm' = arm
            /\ classified' = classified
       /\ classified' # classified => (BounceStep /\ IsrHead.s)]_vars

(* armed with the counter as high as it is let to go, a further press edge *)
(* consumed, and nothing published yet                                     *)
C18_Witness ==
    /\ ticks = MaxTicks /\ since = MaxTicks - 1
    /\ extraDowns > 0
    /\ now > arm.t
    /\ classified = <<>>

(* C19: Scenario A (thresholds 20, 500, 1500 ms; press at 0, ticks at 25   *)
(* and 50, release at 60 ms, each consumed before the next is produced):   *)
(* once all is consumed the release has been accepted with a duration of   *)
(* 60 ms, the recognizer is idle again and every output channel was sent   *)
(* exactly one ShortPress; before that no channel was sent anything else.  *)
C19_ScenarioAOneShort ==
    scn = "A" =>
        /\ \A i \in Outs : IsPrefix(sent[i], <<ShortPress>>)
        /\ (scnPos = Len(Script("A")) /\ Quiet) =>
            /\ last.ev = "up" /\ last.res = "accept"
            /\ ticks = 0 /\ btnDown = ZeroTime /\ arm = NoBounce
            /\ dur = 60
            /\ classified = <<ShortPress>>
            /\ \A i \in Outs : sent[i] = <<ShortPress>>

(* Scenario A has been played to the end and both subscribers have         *)
(* received the ShortPress                                                 *)
C19_Witness ==
    /\ scn = "A" /\ scnPos = Len(Script("A")) /\ Quiet
    /\ Thresholds = ScnThresholds /\ now = 60 /\ nConsumed = 2
    /\ \A i \in Outs : sent[i] = <<ShortPress>> /\ outCh[i] = <<>>

(* C21: while no press is in progress (counter 0) a consumed tick and a    *)
(* consumed release edge leave the counter at 0, pressStart cleared and    *)
(* every output channel as it was, and hand nothing to publish; the        *)
(* counter leaves 0 only by the receive of a press edge, which sets        *)
(* pressStart to the timestamp of that edge and the counter to 1.          *)
C21_IdleIgnoresTickAndRelease ==
    [][/\ (ticks = 0 /\ (tickerCh' < tickerCh \/ (BounceStep /\ IsrHead.s)))
            => /\ ticks' = 0
               /\ btnDown' = ZeroTime
               /\ classified' = classified
               /\ pc' = pc
               /\ outCh' = outCh
               /\ sent' = sent
       /\ (ticks = 0 /\ ticks' # 0) => (BounceStep /\ ~IsrHead.s)
       /\ (ticks = 0 /\ BounceStep /\ ~IsrHead.s)
            => (ticks' = 1 /\ btnDown' = IsrHead.t)]_vars

(* a release edge and then a tick were consumed while no press was in      *)
(* progress: the one sample consumed so far did not arm                    *)
C21_Witness ==
    /\ last.ev = "tick"
    /\ nConsumed = 1
    /\ ticks = 0 /\ btnDown = ZeroTime /\ arm = NoBounce
    /\ classified = <<>>

(* C22: the receive of a release edge with the counter at k = 2 or more    *)
(* ends the press whatever comes of the duration: the counter is 0 and     *)
(* pressStart cleared after it, also when the duration is below shortPress *)
(* or debounceInterval and nothing is handed to publish; the next press    *)
(* edge consumed is measured from its own timestamp.                       *)
C22_AcceptedReleaseCompletes ==
    [][/\ (BounceStep /\ IsrHead.s /\ ticks >= TickGate)
            => /\ ticks' = 0
               /\ btnDown' = ZeroTime
               /\ arm' = NoBounce
               /\ dur' = StepD
       /\ (BounceStep /\ ~IsrHead.s /\ btnDown = ZeroTime)
            => /\ btnDown' = IsrHead.t
               /\ arm' = IsrHead
               /\ ticks' = 1
               /\ since' = 0]_vars

(* a release was accepted with a duration below shortPress: nothing was    *)
(* published and no press is in progress                                   *)
C22_Witness ==
    /\ last.ev = "up" /\ last.res = "accept" /\ last.val = Debounce
    /\ dur < shortPress
    /\ ticks = 0 /\ btnDown = ZeroTime /\ arm = NoBounce

(* C23: the counter is 0 exactly when pressStart is cleared, that is when  *)
(* no press is in progress; while a press is in progress the counter is 1  *)
(* plus the number of ticks consumed since the press edge that armed, and  *)
(* pressStart is the timestamp of that edge.                               *)
C23_CounterTracksTicksSinceArming ==
    /\ ticks >= 0
    /\ (ticks = 0) <=> (btnDown = ZeroTime)
    /\ (ticks = 0) <=> (arm = NoBounce)
    /\ ticks > 0 =>
        /\ ticks = 1 + since
        /\ ~arm.s
        /\ btnDown = arm.t

(* a press is in progress and two ticks were consumed since it armed, the  *)
(* last step being the receive of the second                               *)
C23_Witness ==
    /\ last.ev = "tick"
    /\ ticks = 3 /\ since = 2
    /\ btnDown = arm.t /\ btnDown # ZeroTime
    /\ extraDowns = 0

(* C25 as stated: a value is handed to publish only for a duration that    *)
(* reaches both debounceInterval and shortPress as they are at the         *)
(* accepted release; an accepted release whose duration reaches shortPress *)
(* but not debounceInterval hands nothing to publish. A release accepted   *)
(* between the writes of SetPressDurations is classified by thresholds     *)
(* that do not ascend.                                                     *)
C25_PublishedReachesBothLimits ==
    [][/\ classified' # classified =>
            /\ AcceptStep
            /\ dur' = StepD
            /\ dur' >= debounceInterval
            /\ dur' >= shortPress
       /\ (AcceptStep /\ shortPress <= StepD /\ StepD < debounceInterval)
            => (classified' = classified /\ pc' = "select")]_vars

(* C24 as stated: while no tick is pending on tickerCh and no sample on    *)
(* isrChan, RecognizeAndPublish waiting in its select has no step it can   *)
(* take (it is suspended until one of the two arrives).                    *)
C24_SuspendedWhileInletsEmpty ==
    (pc = "select" /\ tickerCh = 0 /\ ~IsrReady) =>
        ~ENABLED (RecvTick \/ RecvBounce \/ RecvDefault)

(* the samples that lie between the arming press and the accepted release  *)
(* of a completed press                                                    *)
Between(e) == {k \in 1..Len(pEdges) : e.arm < k /\ k < e.rel}

(* C26 as stated: between the press edge that armed and the release edge   *)
(* that is accepted no other release edge was consumed: every sample in    *)
(* between is a press edge.                                                *)
C26_NoReleaseWithinOneHold ==
    \A r \in Runs : \A e \in Entries(r) :
        \A k \in Between(e) : ~pEdges[k].s

(* C26 amended: the duration that is classified runs from the press edge   *)
(* that armed to the release edge that is accepted, and no release between *)
(* the two was accepted (completed presses do not overlap); release edges  *)
(* that were rejected as bounce can lie between them, so that a later      *)
(* release is measured from the press before the rejected release.         *)
C26_MeasuredFromArmingPress ==
    \A r \in Runs : \A e \in Entries(r) :
        /\ e.arm \in 1..Len(pEdges) /\ e.rel \in 1..pPos[r]
        /\ e.arm < e.rel
        /\ ~pEdges[e.arm].s
        /\ pEdges[e.rel].s
        /\ e.val = Recognize(pEdges[e.rel].t - pEdges[e.arm].t,
                             debounceInterval, shortPress, longPress,
                             extraLongPress)
        /\ \A f \in Entries(r) :
            f # e => (f.rel < e.arm \/ e.rel < f.arm)

(* a press was published whose arming press and accepted release have a    *)
(* release edge between them, which was rejected as bounce                 *)
C26_Witness ==
    \E r \in Runs : \E e \in Entries(r) :
        /\ e.val # Debounce
        /\ \E k \in Between(e) : pEdges[k].s

(* the press edges a run consumed while no press was in progress: those    *)
(* of its completed presses and the one it is armed on                     *)
Arms(r) ==
    {e.arm : e \in Entries(r)} \cup (IF pArm[r] # 0 THEN {pArm[r]} ELSE {})

(* C27: a run hands to publish at most as many values as it has accepted   *)
(* releases, and has accepted at most as many releases as it has consumed  *)
(* press edges with no press in progress; each accepted release has its    *)
(* own arming press, later than the release accepted before, and a         *)
(* release edge that follows an accepted one with no press edge between    *)
(* is not accepted.                                                        *)
C27_OnePublicationPerArmedCycle ==
    \A r \in Runs :
        /\ Len(Published(pLog[r])) <= Len(pLog[r])
        /\ Len(pLog[r]) <= Cardinality(Arms(r))
        /\ Arms(r) \subseteq {k \in 1..pPos[r] : ~pEdges[k].s}
        /\ \A i \in 1..Len(pLog[r]) - 1 :
            pLog[r][i].rel < pLog[r][i + 1].arm
        /\ \A e \in Entries(r) : \A k \in 1..pPos[r] :
            (k > e.rel /\ \A j \in (e.rel + 1)..k : pEdges[j].s)
                => \A f \in Entries(r) : f.rel # k

(* a press was published, and the release edge that followed the accepted  *)
(* release was consumed without a second publication                       *)
C27_Witness ==
    \E r \in Runs :
        /\ Len(pLog[r]) = 1
        /\ pLog[r][1].val # Debounce
        /\ pPos[r] = pLog[r][1].rel + 1
        /\ pEdges[pPos[r]].s
        /\ pArm[r] = 0

(* C29: publish sends on the output channels in the order they were given  *)
(* to New, one send completed before the next begins: the channel at       *)
(* position j is sent the value of a press only when every channel before  *)
(* it has been sent that value and no channel after it has; while publish  *)
(* is under way RecognizeAndPublish receives no sample and no tick.        *)
C29_PublishInRegistrationOrder ==
    [][/\ \A j \in 1..Len(outChans) :
            sent'[outChans[j]] # sent[outChans[j]] =>
                /\ pc = "publish" /\ pubIdx = j
                /\ sent'[outChans[j]] = Append(sent[outChans[j]], pubVal)
                /\ pubVal = classified[Len(classified)]
                /\ \A i \in 1..Len(outChans) :
                    /\ i < j => Len(sent[outChans[i]]) = Len(classified)
                    /\ i >= j => Len(sent[outChans[i]]) = Len(classified) - 1
                /\ pc' = IF j = Len(outChans) THEN "select" ELSE "publish"
       /\ pc = "publish" =>
            /\ nConsumed' = nConsumed
            /\ tickerCh' >= tickerCh
            /\ ticks' = ticks /\ btnDown' = btnDown /\ dur' = dur
            /\ classified' = classified]_vars

(* the second press has been sent to the first channel; the send to the    *)
(* second waits, as that channel still holds the first press, and a tick   *)
(* is pending that is not received meanwhile                               *)
C29_Witness ==
    /\ pc = "publish" /\ pubIdx = 2
    /\ Len(classified) = 2
    /\ sent[outChans[1]] = classified
    /\ Len(sent[outChans[2]]) = 1
    /\ ~ChanHasRoom(outCh[outChans[2]], OutCap)
    /\ tickerCh > 0

(* what of the button and of the loop of RecognizeAndPublish is no         *)
(* threshold: the output channels, the channel of samples, the counter,    *)
(* pressStart, the last duration and the place in the loop                 *)
NotThresholds ==
    <<outChans, isrChan, isrBlocked, isrCap, ticks, btnDown, dur, pc,
      pubIdx, pubVal, outCh, tickerCh>>

(* C30: a step that changes debounceInterval changes none of shortPress,   *)
(* longPress and extraLongPress, a step that changes one of these three    *)
(* does not change debounceInterval, and neither changes the output        *)
(* channels, the channel of samples, the counter or pressStart; a setter   *)
(* whose argument is refused changes nothing at all.                       *)
C30_SettersTouchOwnFields ==
    [][/\ debounceInterval' # debounceInterval =>
            /\ Thresholds' = Thresholds
            /\ NotThresholds' = NotThresholds
            /\ DebounceErr(debounceInterval') = NoError
       /\ Thresholds' # Thresholds =>
            /\ debounceInterval' = debounceInterval
            /\ NotThresholds' = NotThresholds
            /\ PressDurationsErr(shortPress', longPress', extraLongPress')
                 = NoError]_vars

(* both setters have changed their fields while a press was in progress    *)
(* and a sample was waiting in the channel                                 *)
C30_Witness ==
    /\ debounceInterval # DefaultDebounce
    /\ Thresholds # <<DefaultShortPress, DefaultLongPress,
                      DefaultExtraLongPress>>
    /\ ticks > 0 /\ btnDown = arm.t
    /\ IsrReady
    /\ outChans = ExampleOuts

(* the values subscriber i has taken from its channel so far *)
Received(i) == Len(sent[i]) - Len(outCh[i])

(* C28: under a fair scheduler with subscribers that keep receiving, once  *)
(* a release edge has been accepted for a duration that is a press (the    *)
(* n-th value is handed to publish), every subscriber eventually receives  *)
(* that value, and RecognizeAndPublish eventually is back in its select    *)
(* with no press in progress and every channel sent every value.           *)
C28_PressEventuallyDelivered ==
    /\ \A n \in 1..MaxEdges :
        (Len(classified) = n) ~> (\A i \in Outs : Received(i) >= n)
    /\ (pc = "publish") ~>
           (/\ pc = "select"
            /\ ticks = 0 /\ btnDown = ZeroTime
            /\ \A i \in Outs : sent[i] = classified)

(* two presses have been published and both subscribers have received     *)
(* both                                                                    *)
C28_Witness ==
    /\ Len(classified) = 2
    /\ pc = "select" /\ ticks = 0
    /\ \A i \in Outs : Received(i) = 2 /\ sent[i] = classified
====
